---- MODULE Spec2Model ----
(***************************************************************************)
(* State-machine model of RdfaSerializer (src/rdfa.py): the three driver   *)
(* passes of serialize, the mutual recursion of subject and predicate on   *)
(* an explicit frame stack, the flattening of first/rest chains, and the   *)
(* prefix rewriting of addNamespace / getQName.                            *)
(*                                                                         *)
(* Terms are named by short strings; Str gives the characters of a term,   *)
(* so that fix and relativize are computed on text.  The output stream is  *)
(* the sequence out of the elements written, in writing order.             *)
(***************************************************************************)
EXTENDS Integers, Sequences, FiniteSets, TLC

VARIABLES store, base, args, max_depth, pc, todo, bnodes, subject_var,
          serialized, stack, out, skipped, namespaces, ns_rewrite, returned

vars == <<store, base, args, max_depth, pc, todo, bnodes, subject_var,
          serialized, stack, out, skipped, namespaces, ns_rewrite, returned>>

ser_vars == <<store, base, args, max_depth, pc, todo, bnodes,
              subject_var, serialized, stack, out, skipped>>

ns_vars == <<namespaces, ns_rewrite, returned>>

None == "None"

(***************************************************************************)
(* Bounds of the model.                                                    *)
(***************************************************************************)
\* largest number of statements of a graph drawn from Universe
MaxTriples == 2
\* largest max_depth argument tried (the smallest is MinDepthArg)
MaxDepthArg == 2
\* number of addNamespace / getQName calls of one resolver session
MaxCalls == 3
\* frames the interpreter's stack holds: one more raises "maximum recursion
\* depth exceeded" (the interpreter's limit, scaled down to the graphs drawn)
MaxStack == 10

MinDepthArg == 0 - 1

\* args.get("max_depth", 3)
DefaultMaxDepth == 3

(***************************************************************************)
(* Terms.                                                                  *)
(***************************************************************************)
RDF_type == "type"
RDF_first == "first"
RDF_rest == "rest"
RDF_nil == "nil"
OWL_Class == "owlClass"
RDFS_Class == "rdfsClass"
RDFS_Resource == "Resource"

URIRefs == {"A", "B", "C", "D", "Foo", RDF_nil, OWL_Class, RDFS_Class,
            RDFS_Resource, RDF_type, RDF_first, RDF_rest, "p", "q", "int",
            "dotted", "nsonly", "unknown"}
BNodes == {"b1", "b2", "b3"}
Literals == {"v", "w", "e", "h", "n"}

IsURIRef(t) == t \in URIRefs
IsBNode(t) == t \in BNodes
IsLiteral(t) == t \in Literals

\* the characters of a term (unicode(term))
Str(t) ==
    CASE t = "A" -> <<"h", "A">>
      [] t = "B" -> <<"h", "B">>
      [] t = "C" -> <<"h", "C">>
      [] t = "D" -> <<"D">>
      [] t = "b1" -> <<"b", "1">>
      [] t = "b2" -> <<"b", "2">>
      [] t = "b3" -> <<"_", ":", "b", "3">>
      [] t = "v" -> <<"v">>
      [] t = "w" -> <<"w">>
      [] t = "h" -> <<"h", "i">>
      [] t = "n" -> <<"1">>
      [] t = "e" -> <<>>
      [] OTHER -> <<t>>

\* Literal.language and Literal.datatype
Language(t) == IF t = "h" THEN "en" ELSE None
Datatype(t) == IF t = "n" THEN "int" ELSE None

\* bool(term): a term is a unicode string, false exactly when empty
Truthy(t) == t # None /\ Len(Str(t)) > 0

StartsWith(s, pre) == Len(s) >= Len(pre) /\ SubSeq(s, 1, Len(pre)) = pre

\* fix(val): strip a leading "_:"
fix(val) == IF StartsWith(val, <<"_", ":">>) THEN SubSeq(val, 3, Len(val)) ELSE val

\* base=None; an empty base strips nothing either
NoBase == <<>>

\* Serializer.relativize(uri): strip the base when the text starts with it
relativize(b, uri) ==
    IF b # NoBase /\ StartsWith(uri, b) THEN SubSeq(uri, Len(b) + 1, Len(uri)) ELSE uri

\* an attribute left out, and an attribute with its value
Absent == <<>>
Attr(val) == <<val>>

(***************************************************************************)
(* Store queries.  A statement is <<s, p, o>>.                             *)
(***************************************************************************)
Subjects(g) == {t[1] : t \in g}
Objects(g, s, p) == {t[3] : t \in {x \in g : x[1] = s /\ x[2] = p}}
PredicateObjects(g, s) == {<<t[2], t[3]>> : t \in {x \in g : x[1] = s}}
TriplesWithObject(g, o) == {t \in g : t[3] = o}
HasStatements(g, s) == \E t \in g : t[1] = s
more_than(S, n) == Cardinality(S) > n

\* first(iterable): some element, or None when there is none
First(S) == IF S = {} THEN {None} ELSE S

(***************************************************************************)
(* Input graphs: every graph of at most MaxTriples statements drawn from   *)
(* Universe, and the graphs of the documented examples.  Every predicate,  *)
(* type object and datatype is an IRI with a computable compact name, so   *)
(* the namespace loop of serialize (lines 104-106) does not raise; first / *)
(* rest chains are acyclic.                                                *)
(***************************************************************************)
Universe ==
    { <<"A", "p", "b1">>, <<"A", "p", "b2">>, <<"C", "p", "b1">>,
      <<"A", "p", "C">>, <<"C", "p", "A">>,
      <<"b1", "p", "b2">>, <<"b2", "p", "b1">>, <<"b1", "p", "b1">>,
      <<"b1", "q", "v">>, <<"b2", "q", "v">>,
      <<"A", RDF_type, "Foo">>, <<"C", RDF_type, OWL_Class>>,
      <<"b1", RDF_first, "v">>, <<"b1", RDF_first, "e">>,
      <<"b1", RDF_rest, "b2">>, <<"b2", RDF_first, "C">> }

Chain == { <<"A", "p", "B">>, <<"B", "p", "C">>, <<"C", "p", "D">>, <<"D", "p", "v">> }
SharedBNode == { <<"A", "p", "b3">>, <<"C", "q", "b3">>, <<"b3", "q", "v">> }
TypedLang == { <<"A", RDF_type, "Foo">>, <<"A", "p", "h">>, <<"A", "q", "n">> }
TwoTypes == { <<"A", RDF_type, "Foo">>, <<"A", RDF_type, "B">> }
ListOfTwo == { <<"A", "p", "b1">>, <<"b1", RDF_first, "v">>, <<"b1", RDF_rest, "b2">>,
               <<"b2", RDF_first, "w">>, <<"b2", RDF_rest, RDF_nil>> }
ListEmptyFirst == { <<"A", "p", "b1">>, <<"b1", RDF_first, "e">>, <<"b1", RDF_rest, "b2">>,
                    <<"b2", RDF_first, "v">>, <<"b2", RDF_rest, RDF_nil>> }
ListOfNodes == { <<"A", "p", "b1">>, <<"b1", RDF_first, "b3">>, <<"b1", RDF_rest, "b2">>,
                 <<"b2", RDF_first, "C">>, <<"b3", "q", "v">>, <<"C", "q", "w">> }

Knot == { <<"b1", "p", "b1">>, <<"b1", "p", "b2">>, <<"b2", "p", "b1">> }

Examples ==
    {Chain, SharedBNode, TypedLang, TwoTypes, ListOfTwo, ListEmptyFirst, ListOfNodes, Knot}

Graphs == {g \in SUBSET Universe : Cardinality(g) <= MaxTriples} \cup Examples

Bases == {NoBase, <<"h">>}

EmptyMap == [x \in {} |-> None]

\* the keyword arguments of serialize: none, or a max_depth
Args == {EmptyMap} \cup {[k \in {"max_depth"} |-> d] : d \in MinDepthArg .. MaxDepthArg}

(***************************************************************************)
(* Elements written to the stream.  s, p, o name the statement the element *)
(* renders (s is the subject whose block encloses it); attr is the value   *)
(* of the about / resource / content attribute; depth gives the indent.    *)
(***************************************************************************)
El(tag, s, p, o, item, attr, depth) ==
    [tag |-> tag, s |-> s, p |-> p, o |-> o, item |-> item, attr |-> attr, depth |-> depth]

SubjectFrame(n, d) ==
    [fn |-> "subject", s |-> None, p |-> None, node |-> n, depth |-> d,
     type |-> None, edges |-> {}, st |-> "enter"]

PredicateFrame(s, p, o, d) ==
    [fn |-> "predicate", s |-> s, p |-> p, node |-> o, depth |-> d,
     type |-> None, edges |-> {}, st |-> "inline"]

Top == stack[Len(stack)]
Pop == SubSeq(stack, 1, Len(stack) - 1)

\* self.nm.qname(type) succeeds
QNameOk(t) == t # None /\ IsURIRef(t)

(***************************************************************************)
(* addNamespace and getQName.  A prefix and a local name are character     *)
(* sequences; returned logs, per addNamespace call of a resolver session,  *)
(* the prefix given, the namespace and the prefix returned.                *)
(***************************************************************************)
Prefixes == { <<>>, <<"_">>, <<"p", "_">>, <<"a">> }
Namespaces == {"n1", "n2"}

\* the terms looked up in a resolver session
LookupTerms == {"q", "int", "p", "dotted", "nsonly", "unknown", "b1"}

\* self.store.compute_qname(uri): prefix, namespace and local name, or an
\* exception (ok is FALSE)
ComputeQName(u) ==
    CASE u = "q" -> [ok |-> TRUE, prefix |-> <<"_">>, namespace |-> "n1", local |-> <<"q">>]
      [] u = "int" -> [ok |-> TRUE, prefix |-> <<"p", "_">>, namespace |-> "n2", local |-> <<"i">>]
      [] u = "dotted" -> [ok |-> TRUE, prefix |-> <<"a">>, namespace |-> "n3", local |-> <<"x", ".", "y">>]
      [] u \in {"nsonly", "unknown"} -> [ok |-> FALSE, prefix |-> <<>>, namespace |-> u, local |-> <<>>]
      [] OTHER -> [ok |-> TRUE, prefix |-> <<"a">>, namespace |-> "n3", local |-> <<u>>]

\* self.store.store.prefix(uri): the prefix bound to uri as a namespace
StorePrefix(u) == IF u = "nsonly" THEN Attr(<<"a">>) ELSE Absent

\* dict.get(key, default)
Get(map, key, default) == IF key \in DOMAIN map THEN map[key] ELSE default

\* lines 47-48: the prefix has to be rewritten
MustRewrite(nss, prefix, namespace) ==
    \/ (prefix # <<>> /\ prefix[1] = "_")
    \/ Get(nss, prefix, namespace) # namespace

\* lines 51-53: "p" prepended until the prefix is no key of self.namespaces
RECURSIVE FreshPrefix(_, _)
FreshPrefix(nss, q) == IF q \in DOMAIN nss THEN FreshPrefix(nss, <<"p">> \o q) ELSE q

\* lines 47-54: self._ns_rewrite after the call
Rewritten(nss, rw, prefix, namespace) ==
    IF MustRewrite(nss, prefix, namespace) /\ prefix \notin DOMAIN rw
    THEN [x \in DOMAIN rw \cup {prefix} |->
             IF x = prefix THEN FreshPrefix(nss, <<"p">> \o prefix) ELSE rw[x]]
    ELSE rw

\* lines 56-57: the prefix returned
Resolved(rw, prefix) == Get(rw, prefix, prefix)

Logged(prefix, namespace, result) ==
    Append(returned, [prefix |-> prefix, namespace |-> namespace, result |-> result])

\* addNamespace(prefix, namespace), lines 37-57
AddNamespace(prefix, namespace) ==
    /\ ns_rewrite' = Rewritten(namespaces, ns_rewrite, prefix, namespace)
    /\ returned' = Logged(prefix, namespace, Resolved(ns_rewrite', prefix))
    /\ UNCHANGED namespaces

AddNamespaceCall ==
    /\ pc = "idle" /\ Len(returned) < MaxCalls
    /\ \E prefix \in Prefixes, namespace \in Namespaces : AddNamespace(prefix, namespace)
    /\ UNCHANGED ser_vars

\* lines 59-84: the parts of the compact name, none when there is none
QNameParts(u) ==
    IF ~IsURIRef(u) THEN Absent
    ELSE LET parts == IF ComputeQName(u).ok THEN Attr(ComputeQName(u))
                      ELSE IF StorePrefix(u) # Absent
                      THEN Attr([ok |-> TRUE, prefix |-> StorePrefix(u)[1],
                                 namespace |-> u, local |-> <<>>])
                      ELSE Absent
         IN IF parts = Absent THEN Absent
            ELSE IF \E i \in 1..Len(parts[1].local) : parts[1].local[i] = "." THEN Absent
            ELSE parts

\* getQName(uri), lines 59-84: a lookup that finds parts registers their namespace
GetQNameCall ==
    /\ pc = "idle" /\ Len(returned) < MaxCalls
    /\ \E u \in LookupTerms :
         /\ QNameParts(u) # Absent
         /\ AddNamespace(QNameParts(u)[1].prefix, QNameParts(u)[1].namespace)
    /\ UNCHANGED ser_vars

\* self._ns_rewrite after getQName(u) inside subject or predicate
QNameSeen(rw, u) ==
    IF QNameParts(u) = Absent THEN rw
    ELSE Rewritten(namespaces, rw, QNameParts(u)[1].prefix, QNameParts(u)[1].namespace)

\* Collection(store, head) iterated: the first items along the rest chain
RECURSIVE Items(_, _)
Items(g, l) ==
    IF ~Truthy(l) THEN {<<>>}
    ELSE UNION { { (IF f = None THEN <<>> ELSE <<f>>) \o tl : tl \in Items(g, r) } :
                 <<f, r>> \in First(Objects(g, l, RDF_first)) \X First(Objects(g, l, RDF_rest)) }

(***************************************************************************)
(* The conditions of subject and predicate.                                *)
(***************************************************************************)
\* mutant: the visited test never succeeds
AlreadySerialized_Never(ser, n) == FALSE

\* line 145: subject in self.__serialized
AlreadySerialized(ser, n) == n \in ser

\* mutant: the subject is not marked
Mark_Forgotten(ser, n) == ser

\* line 146: self.__serialized[subject] = 1
Mark(ser, n) == ser \cup {n}

\* lines 156-162: the about attribute of a subject's block
About(g, b, n) ==
    IF IsBNode(n)
    THEN IF more_than(TriplesWithObject(g, n), 1) THEN Attr(fix(Str(n))) ELSE Absent
    ELSE Attr(relativize(b, Str(n)))

\* mutant: the id of a blank node is not fixed up
Resource_Unfixed(g, b, o) == Attr(relativize(b, Str(o)))

\* lines 186-189: the resource attribute of a reference element
Resource(g, b, o) ==
    IF IsBNode(o) /\ more_than(TriplesWithObject(g, o), 0)
    THEN Attr(fix(Str(o))) ELSE Attr(relativize(b, Str(o)))

\* line 184: the object is rendered as a reference only
ReferenceOnly(g, ser, o) == o \in ser \/ ~HasStatements(g, o)

\* line 192: the truth of first(store.objects(object, RDF.first))
IsListHead(f) == Truthy(f)

\* lines 216-219: typed as a class, and an IRI
ClassTyped(g, o) ==
    /\ \E t \in g : t[1] = o /\ t[2] = RDF_type /\ t[3] \in {OWL_Class, RDFS_Class}
    /\ IsURIRef(o)

\* mutant: the limit itself is excluded
WithinDepth_Strict(depth, limit) == depth < limit

\* line 222
WithinDepth(depth, limit) == depth <= limit

\* mutant: the count of references is compared the wrong way
SingleUse_Shared(g, ser, o) ==
    /\ o \notin ser
    /\ HasStatements(g, o)
    /\ Cardinality(TriplesWithObject(g, o)) > 1

\* lines 228-230: a blank node referenced once is inlined whatever the depth
SingleUse(g, ser, o) ==
    /\ o \notin ser
    /\ HasStatements(g, o)
    /\ Cardinality(TriplesWithObject(g, o)) = 1

\* lines 204-210: the element of one list item
ItemEl(g, b, s, p, o, item, depth) ==
    IF IsBNode(item) THEN El("item", s, p, o, item, Attr(fix(Str(item))), depth)
    ELSE IF IsURIRef(item) THEN El("item", s, p, o, item, Attr(relativize(b, Str(item))), depth)
    ELSE El("itemlit", s, p, o, item, Attr(Str(item)), depth)

\* lines 211-212: the items marked serialized
ItemsMarked(items) == {items[i] : i \in {j \in 1..Len(items) : ~IsURIRef(items[j])}}

\* lines 176-183: the element of a literal object
LiteralEl(s, p, o, depth) ==
    El(IF Language(o) # None THEN "property-lang"
       ELSE IF Datatype(o) # None THEN "property-datatype" ELSE "property",
       s, p, o, o, Attr(Str(o)), depth)

\* the getQName calls of predicate: the predicate in every branch (lines 177,
\* 185, 206-210, 214), and the datatype of a literal without language (line 181)
QNamesOfPredicate(rw, p, o) ==
    IF IsLiteral(o) /\ Language(o) = None /\ Datatype(o) # None
    THEN QNameSeen(QNameSeen(rw, p), Datatype(o))
    ELSE QNameSeen(rw, p)

(***************************************************************************)
(* predicate(predicate, object, depth), called for the statement (s, p, o) *)
(* of the subject block s; stk is the caller's stack.                      *)
(***************************************************************************)
Reference(s, p, o, depth, attr, stk) ==
    /\ out' = Append(out, El("ref", s, p, o, o, attr, depth))
    /\ serialized' = serialized
    /\ stack' = stk

Inline(s, p, o, depth, stk) ==
    /\ out' = Append(out, El("rel", s, p, o, o, Absent, depth))
    /\ serialized' = serialized
    /\ stack' = stk \o <<PredicateFrame(s, p, o, depth), SubjectFrame(o, depth + 1)>>

Predicate(s, p, o, depth, stk) ==
    IF IsLiteral(o)
    THEN /\ out' = Append(out, LiteralEl(s, p, o, depth))
         /\ serialized' = serialized
         /\ stack' = stk
    ELSE IF ReferenceOnly(store, serialized, o)
    THEN Reference(s, p, o, depth, Resource(store, base, o), stk)
    ELSE \E f \in First(Objects(store, o, RDF_first)) :
         IF IsListHead(f)
         THEN \E items \in Items(store, o) :
                /\ out' = out \o [i \in 1..Len(items) |->
                                    ItemEl(store, base, s, p, o, items[i], depth)]
                /\ serialized' = serialized \cup {o} \cup ItemsMarked(items)
                /\ stack' = stk
         ELSE IF ClassTyped(store, o)
         THEN Reference(s, p, o, depth, Attr(relativize(base, Str(o))), stk)
         ELSE IF WithinDepth(depth, max_depth)
         THEN Inline(s, p, o, depth, stk)
         ELSE IF IsBNode(o)
         THEN IF SingleUse(store, serialized, o)
              THEN Inline(s, p, o, depth, stk)
              ELSE Reference(s, p, o, depth, Attr(fix(Str(o))), stk)
         ELSE Reference(s, p, o, depth, Attr(relativize(base, Str(o))), stk)

(***************************************************************************)
(* subject(subject, depth)                                                 *)
(***************************************************************************)
\* the positions of serialize at which subject and predicate run
Running == {"pass1", "pass2", "pass3"}

\* lines 145-162: a visited subject writes nothing; otherwise mark it, pick a
\* type and write the opening tag
SubjectEnter ==
    /\ pc \in Running
    /\ stack # <<>> /\ Top.fn = "subject" /\ Top.st = "enter"
    /\ IF AlreadySerialized(serialized, Top.node)
       THEN /\ stack' = Pop
            /\ skipped' = skipped \cup {Top.node}
            /\ UNCHANGED <<serialized, out, ns_rewrite>>
       ELSE \E ty \in First(Objects(store, Top.node, RDF_type)) :
              LET type == IF QNameOk(ty) THEN ty ELSE None
                  element == IF Truthy(type) THEN type ELSE RDFS_Resource
              IN /\ serialized' = Mark(serialized, Top.node)
                 /\ out' = Append(out, El("subject", Top.node, element, None, None,
                                          About(store, base, Top.node), Top.depth))
                 /\ stack' = Pop \o <<[Top EXCEPT !.st = "loop", !.type = type,
                                        !.edges = PredicateObjects(store, Top.node)]>>
                 /\ ns_rewrite' = QNameSeen(ns_rewrite, element)
                 /\ UNCHANGED skipped
    /\ UNCHANGED <<store, base, args, max_depth, pc, todo, bnodes, subject_var>>
    /\ UNCHANGED <<namespaces, returned>>

\* lines 164-167: one iteration of the loop over predicate_objects
SubjectStep ==
    /\ pc \in Running
    /\ stack # <<>> /\ Top.fn = "subject" /\ Top.st = "loop" /\ Top.edges # {}
    /\ \E e \in Top.edges :
         LET stk == Pop \o <<[Top EXCEPT !.edges = Top.edges \ {e}]>>
         IN IF e[1] = RDF_type /\ e[2] = Top.type
            THEN stack' = stk /\ UNCHANGED <<serialized, out, ns_rewrite>>
            ELSE /\ Predicate(Top.node, e[1], e[2], Top.depth + 1, stk)
                 /\ ns_rewrite' = QNamesOfPredicate(ns_rewrite, e[1], e[2])
    /\ pc' = IF Len(stack') > MaxStack THEN "failed" ELSE pc
    /\ UNCHANGED <<store, base, args, max_depth, todo, bnodes, subject_var, skipped>>
    /\ UNCHANGED <<namespaces, returned>>

\* line 169: the closing tag
SubjectReturn ==
    /\ pc \in Running
    /\ stack # <<>> /\ Top.fn = "subject" /\ Top.st = "loop" /\ Top.edges = {}
    /\ out' = Append(out, El("/subject", Top.node, None, None, None, Absent, Top.depth))
    /\ stack' = Pop
    /\ UNCHANGED <<store, base, args, max_depth, pc, todo, bnodes, subject_var,
                   serialized, skipped>>
    /\ UNCHANGED ns_vars

\* lines 225 / 235 and 242: the inlined block returned, close the relation element
PredicateReturn ==
    /\ pc \in Running
    /\ stack # <<>> /\ Top.fn = "predicate"
    /\ out' = Append(out, El("/rel", Top.s, Top.p, Top.node, Top.node, Absent, Top.depth))
    /\ stack' = Pop
    /\ UNCHANGED <<store, base, args, max_depth, pc, todo, bnodes, subject_var,
                   serialized, skipped>>
    /\ UNCHANGED ns_vars

(***************************************************************************)
(* serialize(stream, base, encoding, **args)                               *)
(***************************************************************************)
\* mutant: zero is let through
ValidDepth_ZeroAllowed(d) == d >= 0

\* line 95: assert self.max_depth > 0
ValidDepth(d) == d > 0

\* lines 87-111: read max_depth, reject a non-positive one, write the root tag
\* (its xmlns attributes are not part of the element kept here)
Start ==
    /\ pc = "start"
    /\ max_depth' = IF "max_depth" \in DOMAIN args THEN args["max_depth"] ELSE DefaultMaxDepth
    /\ IF ValidDepth(max_depth')
       THEN /\ out' = Append(out, El("root", None, None, None, None, Absent, 0))
            /\ pc' = "pass1"
            /\ todo' = Subjects(store)
       ELSE /\ pc' = "failed"
            /\ UNCHANGED <<out, todo>>
    /\ UNCHANGED <<store, base, args, bnodes, subject_var, serialized, stack, skipped>>
    /\ UNCHANGED ns_vars

\* lines 116-120: a subject that no statement references, or that references itself
CanNotBeInline(g, n) ==
    IF TriplesWithObject(g, n) # {}
    THEN \E t \in g : t[1] = n /\ t[3] = n
    ELSE TRUE

\* lines 115-120: subjects that can not be inline
Pass1 ==
    /\ pc = "pass1" /\ stack = <<>>
    /\ IF todo = {}
       THEN /\ pc' = "pass2"
            /\ todo' = Subjects(store)
            /\ UNCHANGED stack
       ELSE /\ \E n \in todo :
                 /\ todo' = todo \ {n}
                 /\ stack' = IF CanNotBeInline(store, n) THEN <<SubjectFrame(n, 1)>> ELSE <<>>
            /\ UNCHANGED pc
    /\ UNCHANGED <<store, base, args, max_depth, bnodes, subject_var,
                   serialized, out, skipped>>
    /\ UNCHANGED ns_vars

\* lines 124-129: every subject that is not a blank node; blank nodes are collected
Pass2 ==
    /\ pc = "pass2" /\ stack = <<>>
    /\ IF todo = {}
       THEN /\ pc' = "pass3"
            /\ todo' = bnodes
            /\ UNCHANGED <<stack, bnodes, subject_var>>
       ELSE /\ \E n \in todo :
                 /\ todo' = todo \ {n}
                 /\ subject_var' = n
                 /\ IF IsBNode(n)
                    THEN bnodes' = bnodes \cup {n} /\ UNCHANGED stack
                    ELSE stack' = <<SubjectFrame(n, 1)>> /\ UNCHANGED bnodes
            /\ UNCHANGED pc
    /\ UNCHANGED <<store, base, args, max_depth, serialized, out, skipped>>
    /\ UNCHANGED ns_vars

\* line 134: the subject handed to self.subject in the last pass
FlushTarget(bnode, subject) == subject

\* lines 132-137: blank nodes not serialized yet, then the closing root tag
Pass3 ==
    /\ pc = "pass3" /\ stack = <<>>
    /\ IF todo = {}
       THEN /\ out' = Append(out, El("/root", None, None, None, None, Absent, 0))
            /\ serialized' = None
            /\ pc' = "done"
            /\ UNCHANGED <<stack, todo>>
       ELSE /\ \E n \in todo :
                 /\ todo' = todo \ {n}
                 /\ stack' = IF n \notin serialized
                             THEN <<SubjectFrame(FlushTarget(n, subject_var), 1)>>
                             ELSE <<>>
            /\ UNCHANGED <<pc, out, serialized>>
    /\ UNCHANGED <<store, base, args, max_depth, bnodes, subject_var, skipped>>
    /\ UNCHANGED ns_vars

InitNs ==
    /\ store = {}
    /\ base = NoBase
    /\ args = EmptyMap
    /\ max_depth = 0
    /\ pc = "idle"
    /\ todo = {}
    /\ bnodes = {}
    /\ subject_var = None
    /\ serialized = {}
    /\ stack = <<>>
    /\ out = <<>>
    /\ skipped = {}
    /\ namespaces = EmptyMap
    /\ ns_rewrite = EmptyMap
    /\ returned = <<>>

NextNs == AddNamespaceCall \/ GetQNameCall

\* one session of the prefix resolver, before serialize is called
SpecNs == InitNs /\ [][NextNs]_vars

Init ==
    /\ store \in Graphs
    /\ base \in Bases
    /\ args \in Args
    /\ max_depth = 0
    /\ pc = "start"
    /\ todo = {}
    /\ bnodes = {}
    /\ subject_var = None
    /\ serialized = {}
    /\ stack = <<>>
    /\ out = <<>>
    /\ skipped = {}
    /\ namespaces = EmptyMap
    /\ ns_rewrite = EmptyMap
    /\ returned = <<>>

Next ==
    \/ Start
    \/ Pass1
    \/ Pass2
    \/ Pass3
    \/ SubjectEnter
    \/ SubjectStep
    \/ SubjectReturn
    \/ PredicateReturn

Spec == Init /\ [][Next]_vars

\* serialize runs to its end: no step of it is postponed for ever
FairSpec == Spec /\ WF_vars(Next)

(***************************************************************************)
(* Reading the output.                                                     *)
(***************************************************************************)
Nodes == URIRefs \cup BNodes \cup Literals

Indices == 1..Len(out)

\* the opening tags of n's block
OpeningTags(n) == {i \in Indices : out[i].tag = "subject" /\ out[i].s = n}
ClosingTags(n) == {i \in Indices : out[i].tag = "/subject" /\ out[i].s = n}

EdgeTags == {"property", "property-lang", "property-datatype", "ref", "rel", "item", "itemlit"}

\* the elements that render the statement t; the items of one list count once
Renderings(t) ==
    {i \in Indices : /\ out[i].tag \in EdgeTags \ {"item", "itemlit"}
                     /\ <<out[i].s, out[i].p, out[i].o>> = t}
    \cup {0 : i \in {j \in Indices : /\ out[j].tag \in {"item", "itemlit"}
                                      /\ <<out[j].s, out[j].p, out[j].o>> = t}}

\* n is a cell of a list chain: it has a first or a rest statement, or a rest
\* statement leads to it
ListCell(g, n) ==
    \/ \E t \in g : t[1] = n /\ t[2] \in {RDF_first, RDF_rest}
    \/ \E t \in g : t[3] = n /\ t[2] = RDF_rest

\* the terms marked serialized before element i was written
VisitedBefore(i) ==
    {out[j].s : j \in {k \in 1..(i - 1) : out[k].tag = "subject"}}
    \cup {out[j].o : j \in {k \in 1..(i - 1) : out[k].tag \in {"item", "itemlit"}}}
    \cup {out[j].item : j \in {k \in 1..(i - 1) : out[k].tag \in {"item", "itemlit"}
                                                   /\ ~IsURIRef(out[k].item)}}

(***************************************************************************)
(* C1: within one serialize call the opening tag and the closing tag of a  *)
(* subject's block are each written at most once, whatever the graph, the  *)
(* depth limit and the enumeration order; a subject call on a visited      *)
(* subject writes nothing.                                                 *)
(***************************************************************************)
C1_BlockAtMostOnce ==
    \A n \in Nodes : Cardinality(OpeningTags(n)) <= 1 /\ Cardinality(ClosingTags(n)) <= 1

\* serialize has returned, and a subject call that found its subject visited
\* left that subject with its one block
C1_Witness ==
    /\ pc = "done"
    /\ \E n \in skipped : Cardinality(OpeningTags(n)) = 1 /\ Cardinality(ClosingTags(n)) = 1

(***************************************************************************)
(* C2: when serialize returns, every subject that has statements and is no *)
(* cell of a list chain has had its block written exactly once.            *)
(***************************************************************************)
C2_EverySubjectMaterialized ==
    pc = "done" =>
        \A n \in Subjects(store) :
            ~ListCell(store, n) => Cardinality(OpeningTags(n)) = 1

(***************************************************************************)
(* C3: every statement is rendered by exactly one element, except the type *)
(* statement folded into its subject's typeof and the statements of list   *)
(* cells.                                                                  *)
(***************************************************************************)
FoldedType(t) ==
    /\ t[2] = RDF_type
    /\ \E i \in OpeningTags(t[1]) : out[i].p = t[3]

C3_EveryStatementOnce ==
    pc = "done" =>
        \A t \in store :
            ~FoldedType(t) /\ ~ListCell(store, t[1]) => Cardinality(Renderings(t)) = 1

(***************************************************************************)
(* C4: the block of a blank node that is the object of more than one       *)
(* statement carries its fixed-up id as identifying attribute, and every   *)
(* reference element of the output that targets it carries that same       *)
(* value; the block of a blank node that is the object of at most one      *)
(* statement carries no identifying attribute.                             *)
(***************************************************************************)
\* the reference elements that target n
ReferencesTo(n) == {i \in Indices : out[i].tag \in {"ref", "item"} /\ out[i].item = n}

C4_SharedBlankNodeIdentified ==
    \A i \in Indices :
        out[i].tag = "subject" /\ IsBNode(out[i].s) =>
            IF Cardinality(TriplesWithObject(store, out[i].s)) > 1
            THEN /\ out[i].attr = <<fix(Str(out[i].s))>>
                 /\ \A j \in ReferencesTo(out[i].s) : out[j].attr = out[i].attr
            ELSE out[i].attr = <<>>

\* serialize has returned; a blank node whose text starts with "_:" and that two
\* statements reference has its block, identified, and a reference element
C4_Witness ==
    /\ pc = "done"
    /\ \E b \in BNodes :
         /\ Str(b) # fix(Str(b))
         /\ Cardinality(TriplesWithObject(store, b)) > 1
         /\ OpeningTags(b) # {}
         /\ ReferencesTo(b) # {}

(***************************************************************************)
(* C5 as claimed: a blank node with statements that is the object of       *)
(* exactly one statement is rendered as a block nested in the relation     *)
(* element of that statement, and never as a reference element or as a     *)
(* top-level block, also when that statement is a self-reference or is     *)
(* reached through a list.                                                 *)
(***************************************************************************)
\* the blank nodes with statements that exactly one statement references
SingleUseBNodes ==
    {b \in BNodes : HasStatements(store, b) /\ Cardinality(TriplesWithObject(store, b)) = 1}

\* element i opens the relation element of a statement and the block of its
\* object follows at once, one level deeper
NestedAt(i) ==
    /\ out[i].tag = "rel"
    /\ i < Len(out)
    /\ out[i + 1].tag = "subject" /\ out[i + 1].s = out[i].o
    /\ out[i + 1].depth = out[i].depth + 1

C5_SingleUseAlwaysNested ==
    pc = "done" =>
        \A b \in SingleUseBNodes :
            /\ \E i \in Indices : NestedAt(i) /\ out[i].o = b
                                  /\ <<out[i].s, out[i].p, out[i].o>> \in store
            /\ ReferencesTo(b) = {}
            /\ \A i \in OpeningTags(b) : out[i].depth > 1

(***************************************************************************)
(* C5 as amended: for a blank node B with statements but no first          *)
(* statement, that is the object of exactly one statement: whenever that   *)
(* statement is rendered while B is not yet visited, it is rendered as a   *)
(* relation element with B's block, without identifying attribute, nested  *)
(* directly in it, at any depth, and not as a reference element.  A blank  *)
(* node whose one reference is a self-reference is visited when that       *)
(* statement is rendered: it gets a top-level block and a reference        *)
(* element.                                                                *)
(***************************************************************************)
C5_SingleUseNestedWhereRendered ==
    /\ \A i \in Indices :
         /\ out[i].tag \in {"rel", "ref"}
         /\ out[i].o \in SingleUseBNodes
         /\ Objects(store, out[i].o, RDF_first) = {}
         /\ out[i].o \notin VisitedBefore(i)
         => /\ out[i].tag = "rel"
            /\ i < Len(out) => NestedAt(i) /\ out[i + 1].attr = <<>>
    /\ pc = "done" =>
         \A b \in SingleUseBNodes :
             (\E t \in store : t[1] = b /\ t[3] = b) =>
                 /\ \E i \in OpeningTags(b) : out[i].depth = 1
                 /\ \E i \in ReferencesTo(b) : out[i].s = b

\* a single-use blank node was inlined by an edge rendered beyond the depth limit
C5_Witness ==
    \E i \in Indices :
        /\ out[i].tag = "rel" /\ out[i].item \in SingleUseBNodes
        /\ out[i].depth > max_depth
        /\ NestedAt(i)
        /\ pc = "done"

(***************************************************************************)
(* C6 as claimed: for the chain A -> B -> C -> D of ordinary resources and *)
(* max_depth = 2, B's block is nested in A's, C's block is nested in B's   *)
(* and D is a reference element inside C's block.                          *)
(***************************************************************************)
\* y's block is nested in the relation element of a statement of x
Nested(x, y) == \E i \in Indices : NestedAt(i) /\ out[i].s = x /\ out[i].o = y

\* a reference element for y inside x's block
ReferencedIn(x, y) == \E i \in Indices : out[i].tag = "ref" /\ out[i].s = x /\ out[i].o = y

C6_ChainInlinedToC ==
    pc = "done" /\ store = Chain /\ max_depth = 2 =>
        /\ Nested("A", "B")
        /\ Nested("B", "C")
        /\ ReferencedIn("C", "D") /\ ~Nested("C", "D")

(***************************************************************************)
(* C6 as amended: for that chain and max_depth = 2, B's block is nested in *)
(* A's, C is a reference element inside B's block (its edge is rendered at *)
(* depth 4), and C's block is written top-level, with D's block nested in  *)
(* it unless the second pass wrote D's block first (D is then a reference  *)
(* element).  In general an unvisited ordinary object with statements is   *)
(* inlined                                                                 *)
(* exactly when the depth at which its edge is rendered is <= max_depth;   *)
(* that depth grows by two per nesting level, so at most max_depth / 2     *)
(* such inlines are nested in one another.                                 *)
(***************************************************************************)
\* the relation elements still open that were inlined by the depth rule
OpenDepthInlines ==
    {k \in 1..Len(stack) : stack[k].fn = "predicate" /\ stack[k].depth <= max_depth}

C6_DepthBoundary ==
    /\ pc = "done" /\ store = Chain /\ max_depth = 2 =>
         /\ Nested("A", "B")
         /\ \E i \in Indices : /\ out[i].tag = "ref" /\ out[i].s = "B" /\ out[i].o = "C"
                               /\ out[i].depth = 4
         /\ ~Nested("B", "C")
         /\ \E i \in OpeningTags("C") : out[i].depth = 1
         /\ \/ Nested("C", "D")
            \/ ReferencedIn("C", "D") /\ \E i \in OpeningTags("D") : out[i].depth = 1
    /\ \A i \in Indices :
         /\ out[i].tag \in {"rel", "ref"}
         /\ IsURIRef(out[i].o)
         /\ out[i].o \notin VisitedBefore(i)
         /\ HasStatements(store, out[i].o)
         /\ Objects(store, out[i].o, RDF_first) = {}
         /\ Objects(store, out[i].o, RDF_type) \cap {OWL_Class, RDFS_Class} = {}
         => (out[i].tag = "rel" <=> out[i].depth <= max_depth)
    /\ pc \in Running => 2 * Cardinality(OpenDepthInlines) <= max_depth

\* the chain was serialized with max_depth = 2
C6_Witness == pc = "done" /\ store = Chain /\ max_depth = 2

(***************************************************************************)
(* C7: when the edge (p, L) is rendered and L is an unvisited node with at *)
(* least one first statement, L is marked visited and one list-item        *)
(* element for p is written per entry of the chain from L, in chain order, *)
(* whatever the items are (an empty-string literal included); the items    *)
(* that are no IRI are marked visited.                                     *)
(***************************************************************************)
\* the items written for the statement t, in writing order
ItemsWritten(t) ==
    LET IsItemOf(e) == e.tag \in {"item", "itemlit"} /\ <<e.s, e.p, e.o>> = t
        els == SelectSeq(out, IsItemOf)
    IN [k \in 1..Len(els) |-> els[k].item]

C7_ListFlattened ==
    /\ \A i \in Indices :
         /\ out[i].tag \in {"rel", "ref"}
         /\ Objects(store, out[i].o, RDF_first) # {}
         => out[i].o \in VisitedBefore(i)
    /\ \A i \in Indices :
         out[i].tag \in {"item", "itemlit"} =>
            /\ ItemsWritten(<<out[i].s, out[i].p, out[i].o>>) \in Items(store, out[i].o)
            /\ pc \in Running =>
                 /\ out[i].o \in serialized
                 /\ ~IsURIRef(out[i].item) => out[i].item \in serialized

(***************************************************************************)
(* C8: serialize called with max_depth <= 0 fails before anything is       *)
(* written and before any subject is visited; without a max_depth the      *)
(* limit is 3.                                                             *)
(***************************************************************************)
C8_NonPositiveDepthRejected ==
    /\ "max_depth" \in DOMAIN args /\ args["max_depth"] <= 0 =>
         /\ pc \in {"start", "failed"}
         /\ out = <<>> /\ serialized = {} /\ stack = <<>> /\ skipped = {}
    /\ "max_depth" \notin DOMAIN args /\ pc # "start" => max_depth = 3
    /\ "max_depth" \in DOMAIN args /\ args["max_depth"] > 0 => pc # "failed"

\* a call with max_depth = 0 has failed
C8_Witness == pc = "failed" /\ "max_depth" \in DOMAIN args /\ args["max_depth"] = 0

(***************************************************************************)
(* C9: in one session of addNamespace calls and compact-name lookups, a    *)
(* call whose prefix starts with "_" or was given before with another      *)
(* namespace returns a rewritten prefix that differs from every prefix     *)
(* returned until then for another namespace, so that no two namespaces    *)
(* get the same prefix; and once a prefix has been rewritten, every later  *)
(* call with it returns the same rewrite.                                  *)
(***************************************************************************)
Calls == 1..Len(returned)

\* call k has to get a rewritten prefix
NeedsRewrite(k) ==
    \/ (returned[k].prefix # <<>> /\ returned[k].prefix[1] = "_")
    \/ \E j \in 1..(k - 1) : /\ returned[j].prefix = returned[k].prefix
                             /\ returned[j].namespace # returned[k].namespace

C9_PrefixesNeverCollide ==
    /\ \A k \in Calls :
         NeedsRewrite(k) =>
            /\ returned[k].result # returned[k].prefix
            /\ \A j \in 1..(k - 1) :
                 returned[j].namespace # returned[k].namespace
                 => returned[j].result # returned[k].result
    /\ \A j, k \in Calls :
         returned[j].namespace # returned[k].namespace
         => returned[j].result # returned[k].result
    /\ \A j, k \in Calls :
         j < k /\ returned[j].prefix = returned[k].prefix
               /\ returned[j].result # returned[j].prefix
         => returned[k].result = returned[j].result

====
